---- MODULE Spec2Model ----
(***************************************************************************)
(* Model of MobileNLD-FL/CMSISImplementation.c: the two Lyapunov entry     *)
(* points (cmsis_compute_lyapunov_q15, nld_compute_lyapunov_q15) and the   *)
(* process-wide performance counters they share.                           *)
(*                                                                         *)
(* C indices are kept: a buffer of n elements is a function on 0..n-1.     *)
(* A 32-bit (or wider) integer x is held as the pair <<q, r>> with         *)
(* x = q * 2^15 + r and 0 <= r < 2^15, so that x >> 15 is q and no value   *)
(* of the model leaves the range of the model checker's integers.          *)
(*                                                                         *)
(* Undefined behaviour is recorded in ub and left open: a call that meets  *)
(* it either stops there (pc = "crashed") or goes on, a signed overflow    *)
(* having wrapped and a read outside a buffer having returned some value.  *)
(***************************************************************************)
EXTENDS Integers, FiniteSets, Sequences, TLC

VARIABLES
    signal, embedding_dim, time_delay,      \* the caller's arguments
    pc, fn, ub,                             \* call status, callee, undefined behaviour met
    phase_space_size,
    phase_space_rows, phase_space_flat,     \* the two phase-space layouts
    distances, sum_vecs, min_dist, min_distances, folded,
    touched_signal, touched_rows, touched_flat,
    result_written, result,                 \* the caller's *result
    g_total_instructions, g_simd_instructions, g_memory_accesses, g_start_time,
    now, metrics,
    session, own, snapshot, utilization     \* callers of the counter utilities

vars == << signal, embedding_dim, time_delay, pc, fn, ub, phase_space_size,
           phase_space_rows, phase_space_flat, distances, sum_vecs, min_dist,
           min_distances, folded, touched_signal, touched_rows, touched_flat,
           result_written, result, g_total_instructions, g_simd_instructions,
           g_memory_accesses, g_start_time, now, metrics,
           session, own, snapshot, utilization >>

-----------------------------------------------------------------------------
(* Bounds of the model *)

MaxLen == 9
MaxDim == 9
MaxDelay == 2
MaxPeriod == 3
MaxElapsed == 1
MaxSteps == 2
MaxClock == 2

(* Program constants *)

Lanes == 8
Q15Shift == 15
Q15_MAX == 32767

Q15One == 2 ^ Q15Shift
Int16Mod == 2 * Q15One
Int32HighMod == 4 * Q15One

\* the sample values tried, and the values a read outside a buffer may return
\* (the same value for every such read of one call)
Samples == {0, Q15_MAX}
Garbage == {0, Q15_MAX}

-----------------------------------------------------------------------------
(* Fixed-width arithmetic *)

Abs(x) == IF x < 0 THEN -x ELSE x

\* (int16_t)x: conversion to 16 bits keeps the value modulo 2^16
ToInt16(x) == ((x + Q15One) % Int16Mod) - Q15One

WZero == <<0, 0>>
WAdd(a, b) ==
    LET s == a[2] + b[2]
    IN  <<a[1] + b[1] + (s \div Q15One), s % Q15One>>
\* d * d for |d| < 2^17, exact
WSquare(d) ==
    LET a  == d \div Q15One
        b  == d % Q15One
        bb == b * b
    IN  WAdd(<<a * a * Q15One + 2 * a * b, 0>>, <<bb \div Q15One, bb % Q15One>>)
WLess(a, b) == a[1] < b[1] \/ (a[1] = b[1] /\ a[2] < b[2])
WMin(a, b) == IF WLess(b, a) THEN b ELSE a
FitsInt32(a) == a[1] >= -(2 * Q15One) /\ a[1] < 2 * Q15One
WrapInt32(a) == <<((a[1] + 2 * Q15One) % Int32HighMod) - 2 * Q15One, a[2]>>
INT32_MAX == <<2 * Q15One - 1, Q15One - 1>>
Shr15(a) == a[1]

\* C integer division truncates toward zero
TruncDiv(a, b) ==
    IF b = 0 THEN 0
    ELSE LET q == Abs(a) \div Abs(b)
         IN  IF (a < 0) = (b < 0) THEN q ELSE -q

-----------------------------------------------------------------------------
(* Phase-space reconstruction *)

SigLen(sig) == Cardinality(DOMAIN sig)

PhaseSpaceSize(sig, dim, td) == SigLen(sig) - (dim - 1) * td

\* signal->data[idx]; a read outside the buffer yields whatever lies there
SigAt(sig, idx, g) == IF idx \in DOMAIN sig THEN sig[idx] ELSE g

\* cmsis: phase_space[i][j] = signal->data[i + j * time_delay]
CmsisPhaseSpace(sig, dim, td, g) ==
    [i \in 0 .. PhaseSpaceSize(sig, dim, td) - 1 |->
        [j \in 0 .. dim - 1 |-> SigAt(sig, i + j * td, g)]]

\* nld: row = &phase_space[i * embedding_dim]; 8-lane gathers, then a scalar tail
NldPhaseSpace_WrongStride(sig, dim, td, g) ==
    [o \in 0 .. PhaseSpaceSize(sig, dim, td) * dim - 1 |->
        SigAt(sig, (o \div dim) + (o % dim), g)]

NldPhaseSpace(sig, dim, td, g) ==
    [o \in 0 .. PhaseSpaceSize(sig, dim, td) * dim - 1 |->
        LET i == o \div dim
            j == o % dim
        IN  IF j < Lanes * (dim \div Lanes)
            THEN SigAt(sig, i + (Lanes * (j \div Lanes) + (j % Lanes)) * td, g)
            ELSE SigAt(sig, i + j * td, g)]

\* the signal indices either reconstruction reads
SignalReads(sig, dim, td) ==
    {i + j * td : i \in 0 .. PhaseSpaceSize(sig, dim, td) - 1, j \in 0 .. dim - 1}

-----------------------------------------------------------------------------
(* Distance kernels *)

\* one lane of vsubq_s16 then vmull_s16: the 16-bit difference wraps, the square is exact
LaneSquare(a, b) == WSquare(ToInt16(a - b))

\* vaddq_s32(prod_low, prod_high): lane l holds diff[l]^2 + diff[l+4]^2, modulo 2^32
\* a, b: the 8 lanes loaded from the two rows
ChunkLanes(a, b) ==
    [l \in 0 .. 3 |-> WrapInt32(WAdd(LaneSquare(a[l], b[l]), LaneSquare(a[l + 4], b[l + 4])))]

\* vaddvq_s32: the four lanes added, modulo 2^32
HorizontalAdd(v) == WrapInt32(WAdd(WAdd(v[0], v[1]), WAdd(v[2], v[3])))

\* cmsis, one pair (i, j): 8-lane chunks while k <= embedding_dim - 8, then the scalar
\* cleanup. acc = [sum, ovf]: ovf records a signed overflow of the int32_t arithmetic.
RECURSIVE CmsisChunks(_, _, _, _, _)
CmsisChunks(ri, rj, dim, k, acc) ==
    IF k > dim - Lanes THEN acc
    ELSE LET v == HorizontalAdd(ChunkLanes([l \in 0 .. Lanes - 1 |-> ri[k + l]],
                                          [l \in 0 .. Lanes - 1 |-> rj[k + l]]))
             s == WAdd(acc.sum, v)
         IN  CmsisChunks(ri, rj, dim, k + Lanes,
                         [sum |-> WrapInt32(s), ovf |-> acc.ovf \/ ~FitsInt32(s)])

RECURSIVE CmsisScalar(_, _, _, _, _)
CmsisScalar(ri, rj, dim, k, acc) ==
    IF k >= dim THEN acc
    ELSE LET sq == WSquare(ri[k] - rj[k])
             s  == WAdd(acc.sum, WrapInt32(sq))
         IN  CmsisScalar(ri, rj, dim, k + 1,
                         [sum |-> WrapInt32(s),
                          ovf |-> acc.ovf \/ ~FitsInt32(sq) \/ ~FitsInt32(s)])

CmsisPairSum(ri, rj, dim) ==
    LET first == IF dim < Lanes THEN 0 ELSE Lanes * (dim \div Lanes)
    IN  CmsisScalar(ri, rj, dim, first,
                    CmsisChunks(ri, rj, dim, 0, [sum |-> WZero, ovf |-> FALSE]))

\* distances[i * phase_space_size + j] = (int16_t)(sum >> 15)
ScaleQ15(sum) == ToInt16(Shr15(sum))

\* nld: the element at flat offset off; a load past the buffer reads what lies there
FlatAt(flat, off, g) == IF off \in DOMAIN flat THEN flat[off] ELSE g

\* nld, one pair (i, j): for (k = 0; k < embedding_dim; k += 8), four 32-bit lanes
RECURSIVE NldSumVec(_, _, _, _, _, _, _)
NldSumVec(flat, dim, i, j, k, g, acc) ==
    IF k >= dim THEN acc
    ELSE LET c == ChunkLanes([l \in 0 .. Lanes - 1 |-> FlatAt(flat, i * dim + k + l, g)],
                             [l \in 0 .. Lanes - 1 |-> FlatAt(flat, j * dim + k + l, g)])
         IN  NldSumVec(flat, dim, i, j, k + Lanes, g,
                       [l \in 0 .. 3 |-> WrapInt32(WAdd(acc[l], c[l]))])

\* if (abs(i - j) < time_delay) continue;
Eligible_SelfOnly(i, j, td) == i # j
Eligible(i, j, td) == ~(Abs(i - j) < td)

\* vminq_s32 over the candidates j .. phase_space_size - 1, from INT32_MAX in every lane
RECURSIVE NldMinVec(_, _, _, _, _, _)
NldMinVec(sums, pss, td, i, j, acc) ==
    IF j >= pss THEN acc
    ELSE NldMinVec(sums, pss, td, i, j + 1,
                   IF Eligible(i, j, td)
                   THEN [l \in 0 .. 3 |-> WMin(acc[l], sums[<<i, j>>][l])]
                   ELSE acc)

\* vminvq_s32
HorizontalMin(v) == WMin(WMin(v[0], v[1]), WMin(v[2], v[3]))

RECURSIVE SumUpTo(_, _)
SumUpTo(f, n) == IF n < 0 THEN 0 ELSE f[n] + SumUpTo(f, n - 1)

\* offsets touched by the 8-lane loads of rows i and j
LoadOffsets(dim, i, j) ==
    {r * dim + k + l : r \in {i, j}, k \in {c * Lanes : c \in 0 .. (dim - 1) \div Lanes},
                       l \in 0 .. Lanes - 1}

\* does the call read outside a buffer at all
SignalOverrun(sig, dim, td) == ~(SignalReads(sig, dim, td) \subseteq DOMAIN sig)

NldOverrun(sig, dim, td) ==
    LET pss == PhaseSpaceSize(sig, dim, td)
    IN  \E i, j \in 0 .. pss - 1 :
          /\ Eligible(i, j, td)
          /\ ~(LoadOffsets(dim, i, j) \subseteq 0 .. pss * dim - 1)

\* what a stray read may return; a call that makes none does not depend on it
StrayValues(stray) == IF stray THEN Garbage ELSE {0}

-----------------------------------------------------------------------------
(* Performance metrics *)

\* a double quotient n / d: NaN for 0/0, infinity for n/0, else the ratio num/den
FDiv(n, d) ==
    IF d = 0
    THEN [tag |-> IF n = 0 THEN "nan" ELSE "inf", num |-> n, den |-> 0]
    ELSE [tag |-> "num", num |-> n, den |-> d]

\* get_performance_metrics() with the counters (total, simd, mem) read at time t.
\* memory_bandwidth is in bytes per clock unit (the code's positive factors
\* 1e9 / 2^30 are left out); processing_time_ms is not assigned there.
Metrics(total, simd, mem, start, t) ==
    [processing_time          |-> [tag |-> "indeterminate", ticks |-> 0],
     simd_utilization_percent |-> FDiv(simd * 100, total),
     total_instructions       |-> total,
     simd_instructions        |-> simd,
     memory_bandwidth         |-> FDiv(mem * 2, t - start)]

\* the metrics of a caller that has read none yet
NoMetrics ==
    [processing_time          |-> [tag |-> "indeterminate", ticks |-> 0],
     simd_utilization_percent |-> FDiv(0, 1),
     total_instructions       |-> 0,
     simd_instructions        |-> 0,
     memory_bandwidth         |-> FDiv(0, 1)]

-----------------------------------------------------------------------------
(* The two entry points, as functions of their arguments *)

Max0(n) == IF n < 0 THEN 0 ELSE n

Pairs(pss) == {p \in (0 .. pss - 1) \X (0 .. pss - 1) : p[1] < p[2]}

CmsisRun(sig, dim, td, g) ==
    LET pss   == PhaseSpaceSize(sig, dim, td)
        rows  == CmsisPhaseSpace(sig, dim, td, g)
        sums  == [p \in Pairs(pss) |-> CmsisPairSum(rows[p[1]], rows[p[2]], dim)]
        np    == Cardinality(Pairs(pss))
        nch   == IF dim < Lanes THEN 0 ELSE dim \div Lanes
        rem   == Max0(dim) - Lanes * nch
    IN  [pss     |-> pss,
         rows    |-> rows,
         dist    |-> [p \in Pairs(pss) |-> ScaleQ15(sums[p].sum)],
         ovf     |-> \E p \in Pairs(pss) : sums[p].ovf,
         sigoob  |-> SignalOverrun(sig, dim, td),
         loads   |-> {<<r, k>> : r \in {p[1] : p \in Pairs(pss)} \cup {p[2] : p \in Pairs(pss)},
                                 k \in 0 .. Lanes * nch - 1},
         total   |-> Max0(pss) * Max0(dim) * 2 + np * (nch * 8 + rem * 3),
         simd    |-> np * nch * 5,
         mem     |-> Max0(pss) * Max0(dim) + np]

NldRun(sig, dim, td, g) ==
    LET pss    == PhaseSpaceSize(sig, dim, td)
        flat   == NldPhaseSpace(sig, dim, td, g)
        cand   == {p \in (0 .. pss - 1) \X (0 .. pss - 1) : Eligible(p[1], p[2], td)}
        zero4  == [l \in 0 .. 3 |-> WZero]
        max4   == [l \in 0 .. 3 |-> INT32_MAX]
        sums   == [p \in cand |-> NldSumVec(flat, dim, p[1], p[2], 0, g, zero4)]
        mind   == [i \in 0 .. pss - 1 |-> HorizontalMin(NldMinVec(sums, pss, td, i, 0, max4))]
        mins   == [i \in 0 .. pss - 1 |-> ScaleQ15(mind[i])]
        loads  == UNION {LoadOffsets(dim, p[1], p[2]) : p \in cand}
        cc     == Max0(dim) \div Lanes
        nc     == (Max0(dim) + Lanes - 1) \div Lanes
        np     == Cardinality(cand)
    IN  [pss     |-> pss,
         flat    |-> flat,
         cand    |-> cand,
         sums    |-> sums,
         mind    |-> mind,
         mins    |-> mins,
         loads   |-> loads,
         sigoob  |-> SignalOverrun(sig, dim, td),
         oob     |-> ~(loads \subseteq DOMAIN flat),
         res     |-> ToInt16(TruncDiv(SumUpTo(mins, pss - 1), pss)),
         total   |-> Max0(pss) * (Lanes * cc + (Max0(dim) - Lanes * cc)) + np * nc * 8,
         simd    |-> Max0(pss) * cc * 2 + np * nc * 6,
         mem     |-> Max0(pss) * Max0(dim) + Max0(pss)]

-----------------------------------------------------------------------------
(* State machine of one call: the caller's arguments are fixed by Init *)

\* the signals tried: every signal of at most MaxLen samples that repeats with a
\* period of at most MaxPeriod samples (the constant signals are those of period 1)
Signals ==
    {[i \in 0 .. n - 1 |-> pat[i % per]] :
        <<n, per, pat>> \in {t \in (0 .. MaxLen) \X (1 .. MaxPeriod) \X
                                   UNION {[0 .. q - 1 -> Samples] : q \in 1 .. MaxPeriod} :
                                 DOMAIN t[3] = 0 .. t[2] - 1}}

Callers == {"A", "B"}
\* what a caller recorded since its reset (steps: how many statements)
NoCount == [total |-> 0, simd |-> 0, mem |-> 0, steps |-> 0]

CountersIdle ==
    /\ g_total_instructions = 0
    /\ g_simd_instructions = 0
    /\ g_memory_accesses = 0
    /\ g_start_time = 0
    /\ now = 0
    /\ metrics = NoMetrics
    /\ session = [c \in Callers |-> "idle"]
    /\ own = [c \in Callers |-> NoCount]
    /\ snapshot = [c \in Callers |-> NoMetrics]
    /\ utilization = FDiv(0, 1)

NothingComputed ==
    /\ pc = "idle"
    /\ fn = "none"
    /\ ub = {}
    /\ phase_space_size = 0
    /\ phase_space_rows = << >>
    /\ phase_space_flat = << >>
    /\ distances = << >>
    /\ sum_vecs = << >>
    /\ min_dist = << >>
    /\ min_distances = << >>
    /\ folded = {}
    /\ touched_signal = {}
    /\ touched_rows = {}
    /\ touched_flat = {}
    /\ result_written = FALSE
    /\ result = 0

Init ==
    /\ signal \in Signals
    /\ embedding_dim \in 0 .. MaxDim
    /\ time_delay \in 0 .. MaxDelay
    /\ NothingComputed
    /\ CountersIdle

Crash(callee, events) ==
    /\ pc' = "crashed"
    /\ fn' = callee
    /\ ub' = events
    /\ UNCHANGED << signal, embedding_dim, time_delay, phase_space_size,
                    phase_space_rows, phase_space_flat, distances, sum_vecs, min_dist,
                    min_distances, folded, touched_signal, touched_rows, touched_flat,
                    result_written, result, g_total_instructions, g_simd_instructions,
                    g_memory_accesses, g_start_time, now, metrics,
                    session, own, snapshot, utilization >>

\* The counters after a whole call that took d clock units: reset_performance_counters()
\* at entry, the increments, get_performance_metrics() and processing_time_ms at exit
Instrumented(total, simd, mem, d) ==
    /\ g_total_instructions' = total
    /\ g_simd_instructions' = simd
    /\ g_memory_accesses' = mem
    /\ g_start_time' = now
    /\ now' = now + d
    /\ metrics' = [Metrics(total, simd, mem, now, now + d)
                       EXCEPT !.processing_time = [tag |-> "set", ticks |-> d]]

cmsis_compute_lyapunov_q15 ==
    /\ pc = "idle"
    /\ \E g \in StrayValues(SignalOverrun(signal, embedding_dim, time_delay)) :
       \E run \in {CmsisRun(signal, embedding_dim, time_delay, g)} :
         LET events == (IF run.ovf THEN {"signed_overflow"} ELSE {})
                         \cup (IF run.sigoob THEN {"oob_read"} ELSE {})
         IN  \/ /\ events # {}
                /\ Crash("cmsis", events)
             \/ \E d \in 0 .. MaxElapsed :
                  /\ pc' = "returned"
                  /\ fn' = "cmsis"
                  /\ ub' = events
                  /\ phase_space_size' = run.pss
                  /\ phase_space_rows' = run.rows
                  /\ distances' = run.dist
                  /\ touched_signal' = SignalReads(signal, embedding_dim, time_delay)
                  /\ touched_rows' = run.loads
                  /\ result_written' = TRUE
                  /\ result' = 0
                  /\ Instrumented(run.total, run.simd, run.mem, d)
                  /\ UNCHANGED << signal, embedding_dim, time_delay, phase_space_flat,
                                  sum_vecs, min_dist, min_distances, folded, touched_flat,
                                  session, own, snapshot, utilization >>

nld_compute_lyapunov_q15 ==
    /\ pc = "idle"
    /\ \E g \in StrayValues(SignalOverrun(signal, embedding_dim, time_delay)
                                \/ NldOverrun(signal, embedding_dim, time_delay)) :
       \E run \in {NldRun(signal, embedding_dim, time_delay, g)} :
         LET events == (IF run.oob \/ run.sigoob THEN {"oob_read"} ELSE {})
                         \cup (IF run.pss = 0 THEN {"div_by_zero"} ELSE {})
                         \cup (IF run.pss < 0 THEN {"memset_unallocated"} ELSE {})
         IN  \/ /\ events # {}
                /\ Crash("nld", events)
             \/ /\ run.pss >= 0
                /\ \E d \in 0 .. MaxElapsed :
                  /\ pc' = "returned"
                  /\ fn' = "nld"
                  /\ ub' = events
                  /\ phase_space_size' = run.pss
                  /\ phase_space_flat' = run.flat
                  /\ sum_vecs' = run.sums
                  /\ min_dist' = run.mind
                  /\ min_distances' = run.mins
                  /\ folded' = run.cand
                  /\ touched_signal' = SignalReads(signal, embedding_dim, time_delay)
                  /\ touched_flat' = run.loads
                  /\ result_written' = TRUE
                  /\ result' = run.res
                  /\ Instrumented(run.total, run.simd, run.mem, d)
                  /\ UNCHANGED << signal, embedding_dim, time_delay, phase_space_rows,
                                  distances, touched_rows,
                                  session, own, snapshot, utilization >>

Next ==
    \/ cmsis_compute_lyapunov_q15
    \/ nld_compute_lyapunov_q15

Spec == Init /\ [][Next]_vars

-----------------------------------------------------------------------------
(* State machine of the counter utilities: two callers of the process-wide    *)
(* counters, each resetting them, recording the increments of a kernel and    *)
(* reading the metrics, one statement at a time                               *)

\* the instrumented statements of the distance loop, as increments
\* (lines 60-61: SIMD chunk; line 68: scalar cleanup; line 72: store)
Increments ==
    { [total |-> 8, simd |-> 5, mem |-> 0],
      [total |-> 3, simd |-> 0, mem |-> 0],
      [total |-> 0, simd |-> 0, mem |-> 1] }

InitPerf ==
    /\ signal = << >>
    /\ embedding_dim = 0
    /\ time_delay = 0
    /\ NothingComputed
    /\ CountersIdle

ComputeUntouched ==
    UNCHANGED << signal, embedding_dim, time_delay, pc, fn, ub, phase_space_size,
                 phase_space_rows, phase_space_flat, distances, sum_vecs, min_dist,
                 min_distances, folded, touched_signal, touched_rows, touched_flat,
                 result_written, result, metrics >>

\* mach_absolute_time() advances
Tick ==
    /\ now < MaxClock
    /\ now' = now + 1
    /\ UNCHANGED << g_total_instructions, g_simd_instructions, g_memory_accesses,
                    g_start_time, session, own, snapshot, utilization >>
    /\ ComputeUntouched

reset_performance_counters(c) ==
    /\ session[c] = "idle"
    /\ g_total_instructions' = 0
    /\ g_simd_instructions' = 0
    /\ g_memory_accesses' = 0
    /\ g_start_time' = now
    /\ session' = [session EXCEPT ![c] = "active"]
    /\ own' = [own EXCEPT ![c] = NoCount]
    /\ UNCHANGED << now, snapshot, utilization >>
    /\ ComputeUntouched

\* one instrumented statement of a kernel run by caller c
RecordInstructions(c, inc) ==
    /\ session[c] = "active"
    /\ own[c].steps < MaxSteps
    /\ g_total_instructions' = g_total_instructions + inc.total
    /\ g_simd_instructions' = g_simd_instructions + inc.simd
    /\ g_memory_accesses' = g_memory_accesses + inc.mem
    /\ own' = [own EXCEPT ![c] = [total |-> @.total + inc.total,
                                  simd  |-> @.simd + inc.simd,
                                  mem   |-> @.mem + inc.mem,
                                  steps |-> @.steps + 1]]
    /\ UNCHANGED << g_start_time, now, session, snapshot, utilization >>
    /\ ComputeUntouched

get_performance_metrics(c) ==
    /\ session[c] = "active"
    /\ snapshot' = [snapshot EXCEPT ![c] =
                       Metrics(g_total_instructions, g_simd_instructions,
                               g_memory_accesses, g_start_time, now)]
    /\ session' = [session EXCEPT ![c] = "ended"]
    /\ UNCHANGED << g_total_instructions, g_simd_instructions, g_memory_accesses,
                    g_start_time, now, own, utilization >>
    /\ ComputeUntouched

measure_simd_utilization(c) ==
    /\ session[c] = "active"
    /\ utilization' = FDiv(g_simd_instructions * 100, g_total_instructions)
    /\ UNCHANGED << g_total_instructions, g_simd_instructions, g_memory_accesses,
                    g_start_time, now, session, own, snapshot >>
    /\ ComputeUntouched

NextPerf ==
    \/ Tick
    \/ \E c \in Callers : reset_performance_counters(c)
    \/ \E c \in Callers : \E inc \in Increments : RecordInstructions(c, inc)
    \/ \E c \in Callers : get_performance_metrics(c)
    \/ \E c \in Callers : measure_simd_utilization(c)

SpecPerf == InitPerf /\ [][NextPerf]_vars

-----------------------------------------------------------------------------
(* Properties *)

ValidParams ==
    /\ embedding_dim >= 2
    /\ time_delay >= 1
    /\ SigLen(signal) > (embedding_dim - 1) * time_delay

InvalidParams ==
    \/ SigLen(signal) <= (embedding_dim - 1) * time_delay
    \/ embedding_dim <= 0
    \/ time_delay <= 0

\* component k of embedding vector i, as the specification defines it
Embedded(i, k) == signal[i + k * time_delay]

\* sum_k (v_i[k] - v_j[k])^2, exact
RECURSIVE ExactSquaredDistance(_, _, _)
ExactSquaredDistance(i, j, k) ==
    IF k < 0 THEN WZero
    ELSE WAdd(WSquare(Embedded(i, k) - Embedded(j, k)), ExactSquaredDistance(i, j, k - 1))

ExactDistance(i, j) == ExactSquaredDistance(i, j, embedding_dim - 1)

Int16Range == -Q15One .. Q15One - 1

\* C1: with valid parameters both entry points build phase_space_size =
\* length - (embedding_dim - 1) * time_delay vectors, element k of vector i is
\* signal[i + k * time_delay] in the pointer-per-row and in the contiguous layout
\* (vector i at offset i * embedding_dim), and the two layouts hold the same values.
C1_PhaseSpaceContents ==
    (pc = "returned" /\ ValidParams) =>
        LET n == SigLen(signal) - (embedding_dim - 1) * time_delay
        IN  /\ phase_space_size = n
            /\ fn = "cmsis" =>
                 \A other \in {NldPhaseSpace(signal, embedding_dim, time_delay, 0)} :
                 /\ DOMAIN phase_space_rows = 0 .. n - 1
                 /\ \A i \in 0 .. n - 1 :
                      /\ DOMAIN phase_space_rows[i] = 0 .. embedding_dim - 1
                      /\ \A k \in 0 .. embedding_dim - 1 :
                           /\ phase_space_rows[i][k] = Embedded(i, k)
                           /\ phase_space_rows[i][k] = other[i * embedding_dim + k]
            /\ fn = "nld" =>
                 \A other \in {CmsisPhaseSpace(signal, embedding_dim, time_delay, 0)} :
                 /\ DOMAIN phase_space_flat = 0 .. n * embedding_dim - 1
                 /\ \A i \in 0 .. n - 1 : \A k \in 0 .. embedding_dim - 1 :
                      /\ phase_space_flat[i * embedding_dim + k] = Embedded(i, k)
                      /\ phase_space_flat[i * embedding_dim + k] = other[i][k]

\* a contiguous phase space of several vectors built through the 8-lane gather
\* from a signal that is not constant
C1_Witness ==
    /\ pc = "returned" /\ ValidParams /\ fn = "nld"
    /\ embedding_dim >= Lanes
    /\ phase_space_size >= 2
    /\ \E a, b \in DOMAIN signal : signal[a] # signal[b]

\* C2: for every pair of vectors both strategies compare, the generic strategy's
\* stored distance equals the one the specialized strategy accumulates (its four
\* lanes added, then >> 15 and narrowed as the generic one does).
C2_SameSquaredDistance ==
    (pc = "returned" /\ fn = "nld" /\ ValidParams) =>
        \A p \in folded :
            p[1] < p[2] =>
                ScaleQ15(HorizontalAdd(sum_vecs[p])) =
                    CmsisRun(signal, embedding_dim, time_delay, 0).dist[p]

\* C3: in the nearest-neighbour search of nld_compute_lyapunov_q15 no candidate
\* j with |i - j| < time_delay is folded into the running minimum of i (j = i never
\* is when time_delay >= 1), and the minimum of i is INT32_MAX or a lane of a
\* candidate at least time_delay away.
C3_TemporalExclusion ==
    (pc = "returned" /\ fn = "nld") =>
        /\ \A p \in folded :
             /\ Abs(p[1] - p[2]) >= time_delay
             /\ time_delay >= 1 => p[1] # p[2]
        /\ DOMAIN sum_vecs = folded
        /\ \A i \in DOMAIN min_dist :
             \/ min_dist[i] = INT32_MAX
             \/ \E j \in 0 .. phase_space_size - 1 : \E l \in 0 .. 3 :
                  /\ Abs(i - j) >= time_delay
                  /\ <<i, j>> \in folded
                  /\ sum_vecs[<<i, j>>][l] = min_dist[i]

\* a search with time_delay = 2 that folded some candidates and skipped a
\* neighbour other than the query itself
C3_Witness ==
    /\ pc = "returned" /\ fn = "nld"
    /\ time_delay = 2
    /\ folded # {}
    /\ \E i, j \in 0 .. phase_space_size - 1 : i # j /\ <<i, j>> \notin folded

\* C4: with signal.length <= (embedding_dim-1)*time_delay, embedding_dim <= 0 or
\* time_delay <= 0 the entry points fail with InvalidParameters: nothing is read,
\* no distance is computed and *result is not written. (The code has no such
\* outcome: a call ends "returned" or "crashed".)
C4_InvalidParametersRejected ==
    (InvalidParams /\ pc # "idle") =>
        /\ pc = "invalid_parameters"
        /\ ~result_written
        /\ touched_signal = {}
        /\ DOMAIN distances = {}
        /\ DOMAIN min_distances = {}

\* C7: on a constant signal with valid parameters the estimate written to *result
\* is 0, for both strategies.
C7_ConstantSignalZero ==
    ( /\ pc = "returned"
      /\ ValidParams
      /\ \A a, b \in DOMAIN signal : signal[a] = signal[b] )
    => (result_written /\ result = 0)

\* C8: the distance computation never overflows or wraps: no signed overflow in
\* the generic strategy, every stored distance is (sum_k (v_i[k]-v_j[k])^2) >> 15
\* and lies within int16; in the specialized strategy the value narrowed into
\* min_distances[i] lies within int16.
C8_NoOverflow ==
    /\ (fn = "cmsis" /\ pc # "idle" /\ ValidParams) =>
          /\ "signed_overflow" \notin ub
          /\ \A p \in DOMAIN distances :
               /\ Shr15(ExactDistance(p[1], p[2])) \in Int16Range
               /\ distances[p] = Shr15(ExactDistance(p[1], p[2]))
    /\ (fn = "nld" /\ pc = "returned" /\ ValidParams) =>
          \A i \in DOMAIN min_dist :
              (\E j \in 0 .. phase_space_size - 1 : <<i, j>> \in folded) =>
                  /\ Shr15(min_dist[i]) \in Int16Range
                  /\ min_distances[i] = Shr15(min_dist[i])

\* C9: for every query i with an eligible candidate the reduced minimum is the
\* minimum over the eligible j of the full squared distance, and min_distances[i]
\* is that minimum under the >> 15 rule.
C9_MinimumIsFullDistance ==
    (pc = "returned" /\ fn = "nld" /\ ValidParams) =>
        \A i \in DOMAIN min_dist :
            LET js == {j \in 0 .. phase_space_size - 1 : Abs(i - j) >= time_delay}
            IN  js # {} =>
                  \E j \in js :
                    /\ \A m \in js : ~WLess(ExactDistance(i, m), ExactDistance(i, j))
                    /\ min_dist[i] = ExactDistance(i, j)
                    /\ min_distances[i] = ScaleQ15(ExactDistance(i, j))

\* C10: with valid parameters every memory access of both entry points is in
\* bounds: signal reads within the signal, 8-lane loads within the row
\* (pointer-per-row) or within the contiguous buffer.
C10_AccessesInBounds ==
    (pc # "idle" /\ ValidParams) =>
        /\ "oob_read" \notin ub
        /\ touched_signal \subseteq DOMAIN signal
        /\ touched_flat \subseteq DOMAIN phase_space_flat
        /\ \A t \in touched_rows : t[2] \in DOMAIN phase_space_rows[t[1]]

\* C5: a second session that starts while a first has not ended fails with
\* SessionBusy and so leaves the counters alone: the counters read at the end of
\* a session hold that session's increments only, whatever the interleaving.
C5_SessionsExclusive ==
    \A c \in Callers :
        session[c] = "ended" =>
            /\ snapshot[c].total_instructions = own[c].total
            /\ snapshot[c].simd_instructions = own[c].simd

\* C6: get_performance_metrics() and measure_simd_utilization() never yield NaN
\* or infinity: utilization is 0 when no instruction was recorded, and the
\* bandwidth division by an elapsed time of 0 is guarded.
C6_DivisionsGuarded ==
    /\ utilization.tag = "num"
    /\ \A c \in Callers :
         session[c] = "ended" =>
             /\ snapshot[c].simd_utilization_percent.tag = "num"
             /\ snapshot[c].memory_bandwidth.tag = "num"
             /\ snapshot[c].total_instructions = 0 =>
                    snapshot[c].simd_utilization_percent.num = 0

====
